---- MODULE Spec2Model ----
(***************************************************************************)
(* Model of the collaborativepermute learning engine (src/predictor.go).   *)
(*                                                                         *)
(* Real numbers are fixed point: a float64 v is the integer v * Scale.     *)
(* gauss.Array is a record [Shape, Data] with Data indexed from 0 in       *)
(* row-major order.  Go slices are sequences, so Choices[0], Choices[1]    *)
(* of the source are Choices[1], Choices[2] here.                          *)
(***************************************************************************)
EXTENDS Integers, Sequences, FiniteSets, TLC

\* ------------------------------------------------------------------ bounds

\* Successful Respond calls explored (length of History).
MaxHist == 2
\* Entries of X lie on the grid of whole scores -MaxScore .. MaxScore.
MaxScore == 2
\* rand.Float64() takes the values r / RandDenom, r in 0 .. RandDenom-1.
RandDenom == 8

\* Fixed-point unit: 1.0 is Scale.
Scale == 1000
\* Units of the finite-difference step per fixed-point unit: 0.0001 is 1/Fine of 1/Scale.
Fine == 10

\* Arguments given to NewEngine: the 2 x 2 engine of the examples, a single
\* user with three items, and an engine with fewer than two items.
Shapes == {<<2, 2>>, <<1, 3>>, <<2, 1>>}

\* ------------------------------------------------------------------ helpers

\* float64 division, rounded toward zero in fixed point.
Div(a, b) == IF a >= 0 THEN a \div b ELSE -((-a) \div b)

Abs(a) == IF a < 0 THEN -a ELSE a

Max(a, b) == IF a >= b THEN a ELSE b

RECURSIVE SqrtBetween(_, _, _)
SqrtBetween(n, lo, hi) ==
    IF lo >= hi THEN lo
    ELSE LET mid == (lo + hi + 1) \div 2
         IN  IF mid * mid <= n THEN SqrtBetween(n, mid, hi)
             ELSE SqrtBetween(n, lo, mid - 1)

\* math.Sqrt of a fixed-point number v (v = x * Scale): sqrt(x) * Scale.
Sqrt(v) == SqrtBetween(v * Scale, 0, 46000)

\* math.Exp(-k) for a fixed-point k >= 0 that is a whole number of units.
RECURSIVE ExpNeg(_)
ExpNeg(k) == IF k < Scale THEN Scale ELSE (ExpNeg(k - Scale) * 368) \div Scale

\* ------------------------------------------------------------------ gauss.Array

Zero(users, choices) ==
    [Shape |-> <<users, choices>>, Data |-> [i \in 0 .. users * choices - 1 |-> 0]]

Idx(A, u, c) == u * A.Shape[2] + c

\* *A.I(u, c)
I(A, u, c) == A.Data[Idx(A, u, c)]

Cells(A) == DOMAIN A.Data

Sum(A, B) == [Shape |-> A.Shape, Data |-> [i \in Cells(A) |-> A.Data[i] + B.Data[i]]]

\* gauss.Scale(A, k) with k in fixed point.
ScaleBy(A, k) == [Shape |-> A.Shape, Data |-> [i \in Cells(A) |-> Div(A.Data[i] * k, Scale)]]

\* ------------------------------------------------------------------ state

VARIABLES
    X, Xp, Z,     \* Engine.X, Engine.Xp, Engine.Z
    Nu, Alpha, Lambda, T,
    History,      \* Engine.History
    samps,        \* the argument of the last call of update
    ret           \* the call that has just returned, NoCall when the caller moved on

engine == <<X, Xp, Z, Nu, Alpha, Lambda, T, History>>
vars == <<X, Xp, Z, Nu, Alpha, Lambda, T, History, samps, ret>>

Query(user, choices, weight) == [User |-> user, Choices |-> choices, weight |-> weight]

NoQuery == Query(-1, <<>>, 0)

NoCall == [op |-> "none", user |-> -1, rnd |-> 0, prompt |-> NoQuery,
           err |-> FALSE, panic |-> FALSE, q |-> NoQuery]

NewEngine(users, choices) ==
    /\ X = Zero(users, choices)
    /\ Xp = Zero(users, choices)
    /\ Z = Zero(users, choices)
    /\ History = <<>>
    /\ Nu = Scale
    /\ Lambda = 40
    /\ Alpha = Scale
    /\ T = Scale

Init ==
    /\ \E s \in Shapes : NewEngine(s[1], s[2])
    /\ samps = <<>>
    /\ ret = NoCall

\* ------------------------------------------------------------------ loss and gradient

\* The sum of hingeLoss over samps at the matrix data D, in units of
\* 1 / (Scale * Fine); the mean the source returns is this sum over Len(samps),
\* and gradientLoss divides by Len(samps) once, after the subtraction.
RECURSIVE hingeLoss(_, _, _)
hingeLoss(D, shape, s) ==
    IF s = <<>> THEN 0
    ELSE LET x == Head(s)
             diff == D[x.User * shape[2] + x.Choices[1]] - D[x.User * shape[2] + x.Choices[2]]
         IN  Max(Scale * Fine - diff, 0) + hingeLoss(D, shape, Tail(s))

\* Forward difference of the mean hinge loss with step 0.0001 in every cell of X.
gradientLoss(A, s) ==
    LET D == [i \in Cells(A) |-> A.Data[i] * Fine]
        before == hingeLoss(D, A.Shape, s)
    IN  [Shape |-> A.Shape,
         Data |-> [i \in Cells(A) |->
                     Div((hingeLoss([D EXCEPT ![i] = @ + 1], A.Shape, s) - before) * Scale,
                         Len(s))]]

\* ------------------------------------------------------------------ update

\* The matrices of the given shape with whole scores of magnitude up to bound.
Grid(shape, bound) ==
    {[Shape |-> shape, Data |-> d] :
        d \in [0 .. shape[1] * shape[2] - 1 -> {k * Scale : k \in -bound .. bound}]}

FrobSq(A) ==
    LET RECURSIVE Acc(_)
        Acc(i) == IF i < 0 THEN 0 ELSE A.Data[i] * A.Data[i] + Acc(i - 1)
    IN  Acc(A.Shape[1] * A.Shape[2] - 1)

\* <A, B> / Scale for a grid matrix A.
Inner(A, B) ==
    LET RECURSIVE Acc(_)
        Acc(i) == IF i < 0 THEN 0 ELSE (A.Data[i] \div Scale) * B.Data[i] + Acc(i - 1)
    IN  Acc(A.Shape[1] * A.Shape[2] - 1)

\* U * Diagonal(max(0, S - Lambda)) * V^T for U, S, V = gauss.SVD(M): the
\* singular values of M soft-thresholded at Lambda.  The decomposition is
\* computed by the gauss library; its result is any matrix of the grid that
\* the thresholding admits: the zero matrix when no singular value of M can
\* exceed Lambda (|M|_F <= Lambda), and otherwise a matrix P with
\* |P|_F^2 <= <P, M> (shrinking singular values in place is firmly
\* non-expansive and maps 0 to 0).
Prox(M) ==
    IF FrobSq(M) <= Lambda * Lambda THEN {Zero(M.Shape[1], M.Shape[2])}
    ELSE LET \* no entry of P exceeds |P|_F <= |M|_F
             reach == CHOOSE b \in 0 .. MaxScore :
                         /\ b * b * Scale * Scale <= FrobSq(M)
                         /\ b < MaxScore => (b + 1) * (b + 1) * Scale * Scale > FrobSq(M)
         IN  {P \in Grid(M.Shape, reach) : FrobSq(P) \div Scale <= Inner(P, M)}

alphaNext(alpha) == (Scale + Sqrt(Scale + Div(4 * alpha * alpha, Scale))) \div 2

update(s) ==
    LET alphaP == alphaNext(Alpha)
        M == Sum(Z, ScaleBy(gradientLoss(X, s), -Nu))
    IN  /\ samps' = s
        /\ Xp' = X
        /\ X' \in Prox(M)
        /\ Z' = Sum(X', ScaleBy(Sum(X', ScaleBy(Xp', -Scale)),
                                Div((Alpha - Scale) * Scale, alphaP)))
        /\ Alpha' = alphaP
        /\ UNCHANGED <<Nu, Lambda, T>>

\* ------------------------------------------------------------------ Respond

\* The checks of Respond, in order: TRUE when one of them returns an error.
validationError(prompt) ==
    IF Len(prompt.Choices) # 2 THEN TRUE
    ELSE IF prompt.User < 0 \/ prompt.User >= X.Shape[1] THEN TRUE
    ELSE \E k \in 1 .. 2 : prompt.Choices[k] < 0 \/ prompt.Choices[k] >= X.Shape[2]

\* Respond with the append ahead of the checks.
RejectAfterAppend(prompt) ==
    /\ ret' = [NoCall EXCEPT !.op = "Respond", !.prompt = prompt, !.err = TRUE]
    /\ History' = Append(History, prompt)
    /\ UNCHANGED <<X, Xp, Z, Nu, Alpha, Lambda, T, samps>>

\* return fmt.Errorf(...)
Reject(prompt) ==
    /\ ret' = [NoCall EXCEPT !.op = "Respond", !.prompt = prompt, !.err = TRUE]
    /\ UNCHANGED <<engine, samps>>

\* Respond with the new query put in front of History.
AcceptPrepend(prompt) ==
    /\ Len(History) < MaxHist
    /\ History' = <<prompt>> \o History
    /\ update(History')
    /\ ret' = [NoCall EXCEPT !.op = "Respond", !.prompt = prompt]

\* Respond with the update run on the new query alone.
AcceptStochastic(prompt) ==
    /\ Len(History) < MaxHist
    /\ History' = Append(History, prompt)
    /\ update(<<prompt>>)
    /\ ret' = [NoCall EXCEPT !.op = "Respond", !.prompt = prompt]

\* p.History = append(p.History, prompt); p.update(p.History); return nil
Accept(prompt) ==
    /\ Len(History) < MaxHist
    /\ History' = Append(History, prompt)
    /\ update(History')
    /\ ret' = [NoCall EXCEPT !.op = "Respond", !.prompt = prompt]

Respond(prompt) ==
    /\ ret = NoCall
    /\ IF validationError(prompt) THEN Reject(prompt) ELSE Accept(prompt)

\* ------------------------------------------------------------------ Generate

\* The loops of Generate without the skip of a = b.
RECURSIVE CandidatesWithSelf(_, _)
CandidatesWithSelf(user, n) ==
    LET choices == X.Shape[2]
        u == n \div (choices * choices)
        a == (n \div choices) % choices
        b == n % choices
    IN  IF n >= X.Shape[1] * choices * choices THEN <<>>
        ELSE IF user >= 0 /\ user # u THEN CandidatesWithSelf(user, n + 1)
        ELSE LET diff == Abs(I(X, u, a) - I(X, u, b))
                 weight == ExpNeg(Div(diff * Scale, T))
             IN  <<Query(u, <<a, b>>, weight)>> \o CandidatesWithSelf(user, n + 1)

\* The loops of Generate without the skip of the other users.
RECURSIVE CandidatesAnyUser(_, _)
CandidatesAnyUser(user, n) ==
    LET choices == X.Shape[2]
        u == n \div (choices * choices)
        a == (n \div choices) % choices
        b == n % choices
    IN  IF n >= X.Shape[1] * choices * choices THEN <<>>
        ELSE IF a = b THEN CandidatesAnyUser(user, n + 1)
        ELSE LET diff == Abs(I(X, u, a) - I(X, u, b))
                 weight == ExpNeg(Div(diff * Scale, T))
             IN  <<Query(u, <<a, b>>, weight)>> \o CandidatesAnyUser(user, n + 1)

\* The candidates appended by the loops over u, a and b from the flat
\* position n = (u * choices + a) * choices + b on, with sum accumulated.
RECURSIVE Candidates(_, _)
Candidates(user, n) ==
    LET choices == X.Shape[2]
        u == n \div (choices * choices)
        a == (n \div choices) % choices
        b == n % choices
    IN  IF n >= X.Shape[1] * choices * choices THEN <<>>
        ELSE IF (user >= 0 /\ user # u) \/ a = b THEN Candidates(user, n + 1)
        ELSE LET diff == Abs(I(X, u, a) - I(X, u, b))
                 weight == ExpNeg(Div(diff * Scale, T))
             IN  <<Query(u, <<a, b>>, weight)>> \o Candidates(user, n + 1)

RECURSIVE TotalWeight(_)
TotalWeight(cands) ==
    IF cands = <<>> THEN 0 ELSE Head(cands).weight + TotalWeight(Tail(cands))

\* The walk with the comparison offset <= option.weight.
RECURSIVE WalkInclusive(_, _, _)
WalkInclusive(cands, i, offset) ==
    IF i > Len(cands) THEN 0
    ELSE IF offset <= cands[i].weight THEN i
    ELSE WalkInclusive(cands, i + 1, offset - cands[i].weight)

\* The walk stopping one option short of the end of the list.
RECURSIVE WalkShort(_, _, _)
WalkShort(cands, i, offset) ==
    IF i >= Len(cands) THEN 0
    ELSE IF offset < cands[i].weight THEN i
    ELSE WalkShort(cands, i + 1, offset - cands[i].weight)

\* The loop over candidates from position i on: the position of the option
\* returned, or 0 when the loop runs off the end of the list.
RECURSIVE Walk(_, _, _)
Walk(cands, i, offset) ==
    IF i > Len(cands) THEN 0
    ELSE IF offset < cands[i].weight THEN i
    ELSE Walk(cands, i + 1, offset - cands[i].weight)

\* The swap made when the first choice scores lower or the same.
OrderedOnTies(option) ==
    IF I(X, option.User, option.Choices[1]) <= I(X, option.User, option.Choices[2])
    THEN [option EXCEPT !.Choices = <<option.Choices[2], option.Choices[1]>>]
    ELSE option

\* The option as returned: its choices swapped when the first scores lower.
Ordered(option) ==
    IF I(X, option.User, option.Choices[1]) < I(X, option.User, option.Choices[2])
    THEN [option EXCEPT !.Choices = <<option.Choices[2], option.Choices[1]>>]
    ELSE option

\* Generate exchanging the two scores in X where it should exchange the choices.
GenerateSwapsScores(user, r) ==
    LET candidates == Candidates(user, 0)
        sum == TotalWeight(candidates)
        offset == Div(r * sum, RandDenom)
        found == Walk(candidates, 1, offset)
        option == candidates[found]
        c0 == Idx(X, option.User, option.Choices[1])
        c1 == Idx(X, option.User, option.Choices[2])
    IN  /\ ret = NoCall
        /\ IF found = 0
             THEN /\ ret' = [NoCall EXCEPT !.op = "Generate", !.user = user, !.rnd = r,
                                           !.panic = TRUE]
                  /\ X' = X
             ELSE /\ ret' = [NoCall EXCEPT !.op = "Generate", !.user = user, !.rnd = r,
                                           !.q = option]
                  /\ X' = IF X.Data[c0] < X.Data[c1]
                           THEN [X EXCEPT !.Data = [@ EXCEPT ![c0] = X.Data[c1],
                                                            ![c1] = X.Data[c0]]]
                           ELSE X
        /\ UNCHANGED <<Xp, Z, Nu, Alpha, Lambda, T, History, samps>>

\* Generate(user) with rand.Float64() = r / RandDenom.
Generate(user, r) ==
    LET candidates == Candidates(user, 0)
        sum == TotalWeight(candidates)
        offset == Div(r * sum, RandDenom)
        found == Walk(candidates, 1, offset)
    IN  /\ ret = NoCall
        /\ ret' = IF found = 0
                    THEN [NoCall EXCEPT !.op = "Generate", !.user = user, !.rnd = r,
                                        !.panic = TRUE]
                    ELSE [NoCall EXCEPT !.op = "Generate", !.user = user, !.rnd = r,
                                        !.q = Ordered(candidates[found])]
        /\ UNCHANGED <<engine, samps>>

\* ------------------------------------------------------------------ callers

\* The queries callers hand to Respond: every query Respond accepts, and
\* queries with a user or a choice just outside its range or with a list of
\* choices that is not a pair.  The weight, which Respond never reads, is 0.
Prompts ==
    LET users == X.Shape[1]
        choices == X.Shape[2]
    IN  {Query(u, <<a, b>>, 0) : u \in 0 .. users - 1, a \in 0 .. choices - 1,
                                 b \in 0 .. choices - 1}
        \cup {Query(u, <<0, 0>>, 0) : u \in {-1, users}}
        \cup {Query(0, c, 0) : c \in {<<-1, 0>>, <<0, -1>>, <<choices, 0>>, <<0, choices>>}}
        \cup {Query(u, c, 0) : u \in {0, users}, c \in {<<>>, <<0>>, <<0, 1, 0>>}}

\* The caller takes the result of the call and goes on.
Continue ==
    /\ ret # NoCall
    /\ ret' = NoCall
    /\ UNCHANGED <<engine, samps>>

Next ==
    \/ \E prompt \in Prompts : Respond(prompt)
    \/ \E user \in -1 .. X.Shape[1], r \in 0 .. RandDenom - 1 : Generate(user, r)
    \/ Continue

Spec == Init /\ [][Next]_vars

\* ------------------------------------------------------------------ properties

UserRange == 0 .. X.Shape[1] - 1
ChoiceRange == 0 .. X.Shape[2] - 1

Invalid(prompt) ==
    \/ Len(prompt.Choices) # 2
    \/ prompt.User \notin UserRange
    \/ \E k \in DOMAIN prompt.Choices : prompt.Choices[k] \notin ChoiceRange

Responded == ret.op = "Respond"
Generated == ret.op = "Generate"

\* C1: a Respond given a query that has not exactly two choices, or a user
\* outside [0, users), or a choice outside [0, choices), returns an error and
\* leaves X, Xp, Z, Alpha and History as they were.
RespondRejectsInvalid ==
    [][(ret'.op = "Respond" /\ Invalid(ret'.prompt))
         => (ret'.err /\ X' = X /\ Xp' = Xp /\ Z' = Z /\ Alpha' = Alpha
             /\ History' = History)]_vars

\* An invalid query was rejected by an engine that has learnt something.
RespondRejectsInvalidWitness ==
    /\ Responded /\ ret.err /\ Invalid(ret.prompt)
    /\ History # <<>>
    /\ X # Zero(X.Shape[1], X.Shape[2])

\* C2: History is append-only: a successful Respond makes it one entry longer,
\* the query given last and the earlier entries as they were; a failed Respond,
\* a Generate and every other step leave it alone.
HistoryAppendOnly ==
    [][IF ret'.op = "Respond" /\ ~ret'.err
         THEN /\ Len(History') = Len(History) + 1
              /\ History'[Len(History')] = ret'.prompt
              /\ \A i \in 1 .. Len(History) : History'[i] = History[i]
         ELSE History' = History]_vars

\* A second, different query was appended.
HistoryAppendOnlyWitness ==
    /\ Responded /\ ~ret.err
    /\ Len(History) = 2
    /\ History[1] # History[2]

\* C3: every query in History has its user in [0, users), both choices in
\* [0, choices) and two distinct choices.
HistoryQueriesWellFormed ==
    \A i \in 1 .. Len(History) :
        /\ History[i].User \in UserRange
        /\ Len(History[i].Choices) = 2
        /\ History[i].Choices[1] \in ChoiceRange
        /\ History[i].Choices[2] \in ChoiceRange
        /\ History[i].Choices[1] # History[i].Choices[2]

\* ---- Generate, stated without its loops

\* The triples (u, a, b) Generate may ask about under the filter user.
Eligible(user) ==
    {t \in UserRange \X ChoiceRange \X ChoiceRange :
        t[2] # t[3] /\ (user < 0 \/ t[1] = user)}

\* s comes before t by user, then first item, then second item.
Before(s, t) ==
    \/ s[1] < t[1]
    \/ s[1] = t[1] /\ s[2] < t[2]
    \/ s[1] = t[1] /\ s[2] = t[2] /\ s[3] < t[3]

Score(u, c) == X.Data[u * X.Shape[2] + c]

WeightOf(t) == ExpNeg(Div(Abs(Score(t[1], t[2]) - Score(t[1], t[3])) * Scale, T))

RECURSIVE WeightSum(_)
WeightSum(S) ==
    IF S = {} THEN 0
    ELSE LET t == CHOOSE x \in S : TRUE IN WeightOf(t) + WeightSum(S \ {t})

\* The weight accumulated up to and including t.
Cumulative(user, t) == WeightSum({s \in Eligible(user) : s = t \/ Before(s, t)})

\* The draw of the call that returned.
Draw == Div(ret.rnd * WeightSum(Eligible(ret.user)), RandDenom)

\* t is the first triple whose cumulative weight exceeds the draw d.
FirstExceeding(user, d, t) ==
    /\ t \in Eligible(user)
    /\ Cumulative(user, t) > d
    /\ \A s \in Eligible(user) : Before(s, t) => Cumulative(user, s) <= d

Returned == Generated /\ ~ret.panic

\* C4: a query returned by Generate has exactly two choices, and they differ.
GenerateNeverSelfCompares ==
    Returned => /\ Len(ret.q.Choices) = 2
                /\ ret.q.Choices[1] # ret.q.Choices[2]

\* Generate returned a query from an engine whose scores are no longer all zero.
GenerateNeverSelfComparesWitness ==
    /\ Returned
    /\ Len(History) = MaxHist
    /\ \E i \in Cells(X) : X.Data[i] # 0

\* C5: in a query returned by Generate the first choice scores at least as
\* high as the second, and when the two scores are equal the choices are in
\* the order of the candidate the walk stopped at.
GenerateOrdersByScore ==
    Returned =>
        /\ Score(ret.q.User, ret.q.Choices[1]) >= Score(ret.q.User, ret.q.Choices[2])
        /\ Score(ret.q.User, ret.q.Choices[1]) = Score(ret.q.User, ret.q.Choices[2])
             => FirstExceeding(ret.user, Draw,
                               <<ret.q.User, ret.q.Choices[1], ret.q.Choices[2]>>)

\* Generate returned the candidate it stopped at with its choices exchanged.
GenerateOrdersByScoreWitness ==
    /\ Returned
    /\ Score(ret.q.User, ret.q.Choices[1]) > Score(ret.q.User, ret.q.Choices[2])
    /\ FirstExceeding(ret.user, Draw, <<ret.q.User, ret.q.Choices[2], ret.q.Choices[1]>>)

\* C6: Generate called with a user in [0, users) returns a query of that
\* user; called with a negative user it returns a query of some user in
\* [0, users).
GenerateRespectsUser ==
    Returned => /\ ret.q.User \in UserRange
                /\ ret.user >= 0 => ret.q.User = ret.user

\* Generate, restricted to the second of two users, returned a query of that user.
GenerateRespectsUserWitness ==
    /\ Returned
    /\ ret.user = 1 /\ ret.q.User = 1
    /\ History # <<>>

\* C7: Generate leaves X, Xp, Z, the hyperparameters and History as they were.
GenerateReadOnly ==
    [][ret'.op = "Generate"
         => /\ X' = X /\ Xp' = Xp /\ Z' = Z /\ History' = History
            /\ Nu' = Nu /\ Alpha' = Alpha /\ Lambda' = Lambda /\ T' = T]_vars

\* Generate returned a query whose choices it had to order, after two updates.
GenerateReadOnlyWitness ==
    /\ Returned
    /\ Len(History) = 2
    /\ X # Xp
    /\ Score(ret.q.User, ret.q.Choices[1]) # Score(ret.q.User, ret.q.Choices[2])

\* C8: with a draw below the total weight, Generate reaches its panic only
\* when there is no candidate at all; with no candidate it always does.
GeneratePanicsOnlyWhenEmpty ==
    Generated =>
        /\ (Eligible(ret.user) # {} /\ Draw < WeightSum(Eligible(ret.user))) => ~ret.panic
        /\ Eligible(ret.user) = {} => ret.panic

\* Generate reached its panic on an engine with fewer than two items.
GeneratePanicsOnlyWhenEmptyWitness ==
    /\ Generated /\ ret.panic
    /\ ret.user = -1
    /\ X.Shape[2] < 2

\* C9: the query Generate returns is the first candidate, in the order of
\* user, first item, second item, whose cumulative weight exceeds the draw,
\* with its weight and with its choices ordered by score.
GenerateMatchesReference ==
    Returned =>
        \E t \in Eligible(ret.user) :
            /\ FirstExceeding(ret.user, Draw, t)
            /\ ret.q.User = t[1]
            /\ ret.q.weight = WeightOf(t)
            /\ ret.q.Choices = IF Score(t[1], t[2]) < Score(t[1], t[3])
                                THEN <<t[3], t[2]>> ELSE <<t[2], t[3]>>

\* The draw fell exactly on the cumulative weight of a candidate, among
\* candidates of different weights, and Generate returned the next one.
GenerateMatchesReferenceWitness ==
    /\ Returned
    /\ \E s \in Eligible(ret.user) : Cumulative(ret.user, s) = Draw
    /\ \E s, t \in Eligible(ret.user) : WeightOf(s) # WeightOf(t)

\* The momentum coefficient after n update steps.
RECURSIVE AlphaAfter(_)
AlphaAfter(n) ==
    IF n = 0 THEN Scale
    ELSE LET a == AlphaAfter(n - 1)
         IN  (Scale + Sqrt(Scale + (4 * a * a) \div Scale)) \div 2

\* C10: the update step of a successful Respond is given the whole History,
\* the new query included, and there has been exactly one update step for
\* each query in History.
UpdateOverWholeHistory ==
    /\ samps = History
    /\ Alpha = AlphaAfter(Len(History))
    /\ (Responded /\ ~ret.err) => (samps # <<>> /\ samps[Len(samps)] = ret.prompt)

\* A second Respond succeeded.
UpdateOverWholeHistoryWitness ==
    /\ Responded /\ ~ret.err
    /\ Len(samps) = 2
    /\ Alpha > AlphaAfter(1)

====
